---- MODULE Spec2Model ----
(***************************************************************************)
(* Availability resolution of Raft-Labs/calendso:                          *)
(*   - slot lookup           src/pages/api/availability/[user]/slot.ts     *)
(*   - availability lookup   src/unnamed/part_000                          *)
(*   - schedule write        src/pages/api/schedule/index.ts (POST, PATCH) *)
(* Instants are whole minutes since 1970-01-01T00:00Z.                     *)
(***************************************************************************)
EXTENDS Integers, Sequences, FiniteSets, TLC

\* ------------------------------------------------------------------------
\* Bounds of the model
\* ------------------------------------------------------------------------
MaxTicks == 2        \* the clock advances at most this many times
MaxSchedules == 2    \* rows of the schedule table

\* ------------------------------------------------------------------------
\* JavaScript values
\* ------------------------------------------------------------------------
\* The Number NaN (parseInt of a non-number, the time of an Invalid Date).
NaN == -999999
\* undefined / null where an id is expected.
Undefined == -1

NumAdd(a, b) == IF a = NaN \/ b = NaN THEN NaN ELSE a + b
NumSub(a, b) == IF a = NaN \/ b = NaN THEN NaN ELSE a - b
NumMul(a, b) == IF a = NaN \/ b = NaN THEN NaN ELSE a * b
\* a >= b and a <= b on Numbers: false as soon as one side is NaN.
NumGe(a, b) == a # NaN /\ b # NaN /\ a >= b
NumLe(a, b) == a # NaN /\ b # NaN /\ a <= b

\* A string is the tuple of its characters.
DigitValue(c) ==
    CASE c = "0" -> 0 [] c = "1" -> 1 [] c = "2" -> 2 [] c = "3" -> 3
      [] c = "4" -> 4 [] c = "5" -> 5 [] c = "6" -> 6 [] c = "7" -> 7
      [] c = "8" -> 8 [] c = "9" -> 9 [] OTHER -> NaN

\* String.prototype.split(sep) for a one-character separator.
RECURSIVE Split(_, _)
Split(s, sep) ==
    IF \E i \in 1..Len(s) : s[i] = sep
    THEN LET i == CHOOSE k \in 1..Len(s) :
                      s[k] = sep /\ \A j \in 1..(k - 1) : s[j] # sep
         IN  <<SubSeq(s, 1, i - 1)>> \o Split(SubSeq(s, i + 1, Len(s)), sep)
    ELSE <<s>>

\* arr[i] of a JavaScript array of strings (0-based); a missing element is
\* undefined, which parseInt reads as the string "undefined".
Element(arr, i) ==
    IF i + 1 \in 1..Len(arr) THEN arr[i + 1]
    ELSE <<"u", "n", "d", "e", "f", "i", "n", "e", "d">>

\* parseInt(s): the value of the longest prefix of decimal digits, NaN when
\* there is none.
RECURSIVE DigitsValue(_, _)
DigitsValue(s, acc) ==
    IF s = <<>> \/ DigitValue(Head(s)) = NaN THEN acc
    ELSE DigitsValue(Tail(s), acc * 10 + DigitValue(Head(s)))

ParseInt(s) ==
    IF s = <<>> \/ DigitValue(Head(s)) = NaN THEN NaN ELSE DigitsValue(s, 0)

\* ------------------------------------------------------------------------
\* dayjs
\* ------------------------------------------------------------------------
MinutesPerHour == 60
MinutesPerDay == 24 * MinutesPerHour

IsValid(d) == d # NaN
IsAfter(a, b) == a # NaN /\ b # NaN /\ a > b

\* a.diff(b, "hours"): the difference in whole hours, truncated toward zero.
DiffHours(a, b) ==
    IF a = NaN \/ b = NaN THEN NaN
    ELSE IF a >= b THEN (a - b) \div MinutesPerHour
    ELSE -((b - a) \div MinutesPerHour)

\* d.add(n, "minutes")
AddMinutes(d, n) == NumAdd(d, n)

\* Offset of a zone from UTC in minutes, at the instants of the model (the
\* week of 2024-01-08, no daylight-saving transition).
UtcOffset(timeZone) ==
    CASE timeZone = "UTC" -> 0
      [] timeZone = "America/New_York" -> -300

\* d.tz(timeZone): the local wall-clock minute count.
Tz(d, timeZone) == d + UtcOffset(timeZone)
\* .day(): 0 = Sunday; 1970-01-01 was a Thursday.
DayOf(local) == ((local \div MinutesPerDay) + 4) % 7
HourOf(local) == (local % MinutesPerDay) \div MinutesPerHour
MinuteOf(local) == local % MinutesPerHour

\* ------------------------------------------------------------------------
\* Inputs
\* ------------------------------------------------------------------------
\* 2024-01-08T00:00Z, a Monday.
Monday == 19730 * MinutesPerDay
At(day, hour, minute) ==
    Monday + day * MinutesPerDay + hour * MinutesPerHour + minute

ClockStart == At(0, 8, 0)
ClockStep == MinutesPerHour

\* Request windows <<dateFrom, dateTo>>; NaN is an unparseable date string.
Windows ==
    { <<At(0, 10, 0), At(0, 10, 30)>>,     \* Monday 10:00 - 10:30
      <<NaN, At(0, 10, 30)>>,              \* unparseable dateFrom
      <<At(0, 10, 0), NaN>>,               \* unparseable dateTo
      <<At(0, 10, 30), At(0, 10, 0)>>,     \* inverted
      <<At(0, 9, 0), At(1, 10, 0)>>,       \* 25 hours
      <<At(0, 10, 0), At(1, 10, 0)>>,      \* 24 hours
      <<At(0, 10, 0), At(1, 9, 59)>>,      \* 23 hours 59 minutes
      <<At(0, 9, 0), At(0, 12, 0)>>,       \* Monday 09:00 - 12:00
      <<At(0, 23, 30), At(1, 0, 30)>>,     \* across UTC midnight
      <<At(1, 14, 0), At(1, 15, 0)>> }     \* Tuesday 14:00 - 15:00

\* Windows asked for a username that has no user row.
GhostWindows ==
    { <<At(0, 10, 0), At(0, 10, 30)>>,
      <<At(0, 10, 30), At(0, 10, 0)>>,
      <<At(0, 9, 0), At(1, 10, 0)>>,
      <<At(0, 9, 0), At(0, 12, 0)>> }

\* Lookup requests <<user, <<dateFrom, dateTo>>>>.
Requests == ({"alice"} \X Windows) \cup ({"ghost"} \X GhostWindows)

S(a, b, c, d, e) == <<a, b, c, d, e>>
Time0900 == S("0", "9", ":", "0", "0")
Time1200 == S("1", "2", ":", "0", "0")
Time1300 == S("1", "3", ":", "0", "0")
Time1700 == S("1", "7", ":", "0", "0")
Time9 == <<"9">>

\* freeBusyTimes values a schedule write may carry.
FreeBusyEmpty == [monday |-> <<>>]
FreeBusyWeek ==
    [monday  |-> << [start |-> Time1300, end |-> Time1700],
                    [start |-> Time0900, end |-> Time1200] >>,
     tuesday |-> << [start |-> Time0900, end |-> Time1700] >>]
FreeBusyMalformed ==
    [monday |-> << [start |-> Time1300, end |-> Time1700],
                   [start |-> Time9, end |-> Time1700],
                   [start |-> Time0900, end |-> Time1200] >>]
FreeBusyValues == {FreeBusyEmpty, FreeBusyWeek, FreeBusyMalformed}

Booking(status, confirmed, startTime, endTime) ==
    [userId |-> 1, status |-> status, confirmed |-> confirmed,
     startTime |-> startTime, endTime |-> endTime]
BookingEarly == Booking("ACCEPTED", TRUE, At(0, 9, 45), At(0, 10, 15))
BookingInside == Booking("ACCEPTED", TRUE, At(0, 10, 0), At(0, 10, 30))
BookingPending == Booking("PENDING", FALSE, At(0, 10, 0), At(0, 10, 30))
\* Contents of the booking table, rows in insertion order.
BookingTables ==
    { <<>>, <<BookingEarly>>, <<BookingInside>>, <<BookingPending>>,
      <<BookingEarly, BookingInside>> }

UserRow(timeZone, notice) ==
    [id |-> 1, username |-> "alice", timeZone |-> timeZone,
     startTime |-> 540, endTime |-> 1020, minimumBookingNotice |-> notice]
\* The user row: default hours 09:00-17:00; minimumBookingNotice 0 or the
\* column's default of 120 minutes.
UserRows ==
    { UserRow("UTC", 0), UserRow("UTC", 120),
      UserRow("America/New_York", 120) }

\* ------------------------------------------------------------------------
\* State
\* ------------------------------------------------------------------------
VARIABLES
    now,         \* the wall clock, what dayjs() returns
    tzExtended,  \* dayjs.extend(utc), dayjs.extend(timezone) ran in this process
    users,       \* table users
    schedules,   \* table Schedule, in insertion order
    bookings,    \* table Booking, in insertion order
    call,        \* the handler invocation being answered: its request, the
                 \* steps it took, its locals and its response; request-
                 \* scoped, gone (Blank) once time moves on
    prev         \* when call repeats the request of the invocation answered
                 \* before it: that invocation; Blank otherwise

vars == <<now, tzExtended, users, schedules, bookings, call, prev>>

\* No invocation yet; also the initial value of every handler local.
Blank ==
    [handler |-> "none", user |-> "", dateFrom |-> NaN, dateTo |-> NaN,
     now |-> NaN, steps |-> <<>>, status |-> 0, message |-> "",
     timeZone |-> "", notice |-> 0, schedule |-> <<>>,
     workingHours |-> <<>>, selectedSlots |-> <<>>,
     bookings |-> <<>>, busy |-> <<>>, available |-> FALSE,
     freeBusyTimes |-> <<>>]     \* req.body.data.freeBusyTimes of a write

\* res.status(status).json({ message })
Json(c, steps, status, message) ==
    [c EXCEPT !.steps = steps, !.status = status, !.message = message]
\* an error thrown out of the handler: no response is sent by the handler
Throw(c, steps, message) ==
    [c EXCEPT !.steps = steps, !.status = 0, !.message = message]


\* ------------------------------------------------------------------------
\* Working hours (slot.ts 62-94, part_000 39-71: the same code twice)
\* ------------------------------------------------------------------------
days ==
    <<"sunday", "monday", "tuesday", "wednesday", "thursday", "friday",
      "saturday">>

\* parseInt(t[0]) * 60 + parseInt(t[1]) of t = time.split(":")
ToMinutes(time) ==
    LET t == Split(time, ":")
    IN  NumAdd(NumMul(ParseInt(Element(t, 0)), 60), ParseInt(Element(t, 1)))

\* schedule.freeBusyTimes?.[day]?.map(...) ?? []
Times(schedule, index) ==
    LET day == days[index + 1]
        list == IF day \in DOMAIN schedule.freeBusyTimes
                THEN schedule.freeBusyTimes[day] ELSE <<>>
    IN  [k \in 1..Len(list) |->
            [days |-> <<index>>,
             startTime |-> ToMinutes(list[k].start),
             endTime |-> ToMinutes(list[k].end)]]

\* days.forEach((day, index) => acc.push(...times)), from index on
RECURSIVE ForEachDay(_, _)
ForEachDay(schedule, index) ==
    IF index >= Len(days) THEN <<>>
    ELSE Times(schedule, index) \o ForEachDay(schedule, index + 1)

\* rawUser.Schedule.reduce(..., [])
RECURSIVE Workhours(_)
Workhours(Schedule) ==
    IF Schedule = <<>> THEN <<>>
    ELSE ForEachDay(Head(Schedule), 0) \o Workhours(Tail(Schedule))

DefaultAvailabilityWeekdays(rawUser) ==
    [startTime |-> rawUser.startTime, endTime |-> rawUser.endTime,
     days |-> <<1, 2, 3, 4, 5>>]

DefaultAvailability(rawUser) ==
    [startTime |-> rawUser.startTime, endTime |-> rawUser.endTime,
     days |-> <<0, 1, 2, 3, 4, 5, 6>>]

\* The comparator (a, b) => a.startTime - b.startTime; sort reads NaN as 0.
Compare(a, b) ==
    LET v == NumSub(a.startTime, b.startTime) IN IF v = NaN THEN 0 ELSE v

\* Array.prototype.sort is stable: x goes behind the last element it is not
\* smaller than.
RECURSIVE Insert(_, _)
Insert(sorted, x) ==
    IF sorted = <<>> THEN <<x>>
    ELSE LET n == Len(sorted)
         IN  IF Compare(x, sorted[n]) < 0
             THEN Insert(SubSeq(sorted, 1, n - 1), x) \o <<sorted[n]>>
             ELSE sorted \o <<x>>

RECURSIVE Sort(_)
Sort(arr) ==
    IF arr = <<>> THEN <<>>
    ELSE Insert(Sort(SubSeq(arr, 1, Len(arr) - 1)), arr[Len(arr)])

WorkingHoursNoLength(rawUser) == Sort(Workhours(rawUser.Schedule))

\* workhours?.length ? workhours : [defaultAvailability], then sorted
WorkingHours(rawUser) ==
    LET workhours == Workhours(rawUser.Schedule)
    IN  Sort(IF Len(workhours) # 0 THEN workhours
             ELSE <<DefaultAvailability(rawUser)>>)

\* ------------------------------------------------------------------------
\* Slot resolution (slot.ts 96-108, part_000 73-85)
\* ------------------------------------------------------------------------
MinuteOfDay(d, timeZone) ==
    HourOf(Tz(d, timeZone)) * 60 + MinuteOf(Tz(d, timeZone))

Includes(arr, x) == \E i \in 1..Len(arr) : arr[i] = x

SlotMatchesHalfOpen(slot, day, startTime, endTime) ==
    /\ Includes(slot.days, day)
    /\ NumGe(startTime, slot.startTime)
    /\ NumLe(startTime, slot.endTime)
    /\ NumGe(endTime, slot.startTime)
    /\ NumLe(endTime, slot.endTime)
    /\ endTime # slot.endTime

SlotMatches(slot, day, startTime, endTime) ==
    /\ Includes(slot.days, day)
    /\ NumGe(startTime, slot.startTime)
    /\ NumLe(startTime, slot.endTime)
    /\ NumGe(endTime, slot.startTime)
    /\ NumLe(endTime, slot.endTime)

SelectedSlots(workingHours, timeZone, dateFrom, dateTo) ==
    LET day == DayOf(Tz(dateFrom, timeZone))
        startTime == MinuteOfDay(dateFrom, timeZone)
        endTime == MinuteOfDay(dateTo, timeZone)
        Test(slot) == SlotMatches(slot, day, startTime, endTime)
    IN  SelectSeq(workingHours, Test)

\* ------------------------------------------------------------------------
\* Data access
\* ------------------------------------------------------------------------
FindUniqueUserAny(username) ==
    { [id |-> u.id, timeZone |-> u.timeZone, startTime |-> u.startTime,
       endTime |-> u.endTime,
       minimumBookingNotice |-> u.minimumBookingNotice,
       Schedule |-> LET Mine(s) == s.userId = u.id
                        rows == SelectSeq(schedules, Mine)
                    IN  [k \in 1..Len(rows) |->
                            [freeBusyTimes |-> rows[k].freeBusyTimes]]]
      : u \in users }

\* prisma.user.findUnique({ where: { username } }): the rows found (none is
\* null), each with its Schedule relation.
FindUniqueUser(username) ==
    { [id |-> u.id, timeZone |-> u.timeZone, startTime |-> u.startTime,
       endTime |-> u.endTime,
       minimumBookingNotice |-> u.minimumBookingNotice,
       Schedule |-> LET Mine(s) == s.userId = u.id
                        rows == SelectSeq(schedules, Mine)
                    IN  [k \in 1..Len(rows) |->
                            [freeBusyTimes |-> rows[k].freeBusyTimes]]]
      : u \in {r \in users : r.username = username} }

FindBookingsFromNow(userId, dateFrom, dateTo) ==
    LET Wanted(b) ==
            /\ b.userId = userId
            /\ b.status = "ACCEPTED"
            /\ b.confirmed
            /\ b.startTime >= now
            /\ b.startTime <= dateTo
    IN  SelectSeq(bookings, Wanted)

\* prisma.booking.findMany of slot.ts
FindBookings(userId, dateFrom, dateTo) ==
    LET Wanted(b) ==
            /\ b.userId = userId
            /\ b.status = "ACCEPTED"
            /\ b.confirmed
            /\ b.startTime >= dateFrom
            /\ b.startTime <= dateTo
    IN  SelectSeq(bookings, Wanted)

\* bookings.map(slot => ({ startTime, endTime })) in local minutes
Busy(found, timeZone) ==
    [k \in 1..Len(found) |->
        [startTime |-> MinuteOfDay(found[k].startTime, timeZone),
         endTime |-> MinuteOfDay(found[k].endTime, timeZone)]]


\* ------------------------------------------------------------------------
\* Handlers
\* ------------------------------------------------------------------------
\* The rules of the guard, as the handlers test them.
\* !dateFrom.isValid() || !dateTo.isValid() || dateFrom.isAfter(dateTo)
InvalidRangeUnordered(dateFrom, dateTo) ==
    ~IsValid(dateFrom) \/ ~IsValid(dateTo)

InvalidRange(dateFrom, dateTo) ==
    ~IsValid(dateFrom) \/ ~IsValid(dateTo) \/ IsAfter(dateFrom, dateTo)

\* dateTo.diff(dateFrom, "hours") >= 24
SlotTooLongStrict(dateFrom, dateTo) == DiffHours(dateTo, dateFrom) > 24

SlotTooLong(dateFrom, dateTo) == DiffHours(dateTo, dateFrom) >= 24

\* dayjs().isAfter(dateFrom)
PastBooking(clock, dateFrom) == IsAfter(clock, dateFrom)

\* rawUser.minimumBookingNotice &&
\*   dayjs().add(rawUser.minimumBookingNotice, "minutes").isAfter(dateFrom)
InsufficientNoticeInclusive(minimumBookingNotice, clock, dateFrom) ==
    /\ minimumBookingNotice # 0
    /\ ~IsAfter(dateFrom, AddMinutes(clock, minimumBookingNotice))

InsufficientNotice(minimumBookingNotice, clock, dateFrom) ==
    /\ minimumBookingNotice # 0
    /\ IsAfter(AddMinutes(clock, minimumBookingNotice), dateFrom)

\* available: !!selectedSlots.length && !bookings.length
SlotAvailableAnyBooking(selectedSlots, found) == Len(selectedSlots) # 0

SlotAvailable(selectedSlots, found) ==
    Len(selectedSlots) # 0 /\ Len(found) = 0

\* available: !!selectedSlots.length
AvailabilityAvailableUnbooked(selectedSlots) ==
    Len(selectedSlots) # 0 /\ bookings = <<>>

AvailabilityAvailable(selectedSlots) == Len(selectedSlots) # 0

\* Lines 86-139 of slot.ts: the working hours, the matching slots, the
\* bookings of the window and the 200 response.
SlotResult(c, rawUser, dateFrom, dateTo, done) ==
    LET timeZone == rawUser.timeZone
        workingHours == WorkingHours(rawUser)
        selectedSlots ==
            SelectedSlots(workingHours, timeZone, dateFrom, dateTo)
        found == FindBookings(rawUser.id, dateFrom, dateTo)
        busy == Busy(found, timeZone)
    IN  [c EXCEPT
            !.steps = done \o <<"workhours", "sort", "filter", "findMany",
                                "busy", "json">>,
            !.status = 200,
            !.timeZone = timeZone,
            !.workingHours = workingHours,
            !.selectedSlots = selectedSlots,
            !.bookings = found,
            !.busy = busy,
            !.available = SlotAvailable(selectedSlots, found)]

\* handler of slot.ts
SlotHandler(user, dateFrom, dateTo) ==
    LET c == [Blank EXCEPT !.handler = "slot", !.user = user,
                           !.dateFrom = dateFrom, !.dateTo = dateTo,
                           !.now = now]
        found == FindUniqueUser(user)
    IN  IF InvalidRange(dateFrom, dateTo)
        THEN Json(c, <<"range">>, 400, "Invalid time range given.")
        ELSE IF SlotTooLong(dateFrom, dateTo)
        THEN Json(c, <<"range", "span">>, 400,
                  "Cannot book a slot longer than 24 hours.")
        ELSE IF found = {}
        THEN Json(c, <<"range", "span", "findUnique">>, 404, "No User Found")
        ELSE LET rawUser == CHOOSE u \in found : TRUE
                 u == [c EXCEPT !.notice = rawUser.minimumBookingNotice,
                                !.schedule = rawUser.Schedule]
             IN  IF PastBooking(now, dateFrom)
                 THEN Json(u, <<"range", "span", "findUnique", "past">>, 400,
                           "Cannot book past time.")
                 ELSE IF InsufficientNotice(rawUser.minimumBookingNotice, now,
                                            dateFrom)
                 THEN Json(u, <<"range", "span", "findUnique", "past",
                                "notice">>, 400,
                           "Select a time after minimum notice period")
                 ELSE SlotResult(u, rawUser, dateFrom, dateTo,
                                 <<"range", "span", "findUnique", "past",
                                   "notice">>)

\* handler of part_000, the availability lookup. The file never extends
\* dayjs with the timezone plugin: dateFrom.tz exists only if another module
\* of the process did.
AvailabilityHandler(user, dateFrom, dateTo) ==
    LET c == [Blank EXCEPT !.handler = "availability", !.user = user,
                           !.dateFrom = dateFrom, !.dateTo = dateTo,
                           !.now = now]
        found == FindUniqueUser(user)
    IN  IF InvalidRange(dateFrom, dateTo)
        THEN Json(c, <<"range">>, 400, "Invalid time range given.")
        ELSE IF found = {}
        THEN Throw(c, <<"range", "findUnique">>, "Error: No user found")
        ELSE LET rawUser == CHOOSE u \in found : TRUE
                 timeZone == rawUser.timeZone
                 workingHours == WorkingHours(rawUser)
                 selectedSlots ==
                     SelectedSlots(workingHours, timeZone, dateFrom, dateTo)
                 u == [c EXCEPT !.notice = rawUser.minimumBookingNotice,
                                !.schedule = rawUser.Schedule,
                                !.timeZone = timeZone,
                                !.workingHours = workingHours]
             IN  IF ~tzExtended
                 THEN Throw(u, <<"range", "findUnique", "workhours", "sort">>,
                            "TypeError: dateFrom.tz is not a function")
                 ELSE [u EXCEPT
                          !.steps = <<"range", "findUnique", "workhours",
                                      "sort", "filter", "json">>,
                          !.status = 200,
                          !.selectedSlots = selectedSlots,
                          !.available = AvailabilityAvailable(selectedSlots)]

\* prisma.schedule.create: the table with the new row, ids in sequence.
Create(userId, freeBusyTimes) ==
    Append(schedules, [id |-> Len(schedules) + 1, userId |-> userId,
                       freeBusyTimes |-> freeBusyTimes])
\* connect: { id } fails unless a user has that id.
CanConnect(userId) == \E u \in users : u.id = userId

\* prisma.schedule.findFirst({ where: { userId: { equals } } }): the positions
\* of the rows that match; an undefined operand filters nothing.
FindFirst(userId) ==
    { i \in 1..Len(schedules) :
        userId = Undefined \/ schedules[i].userId = userId }

Min(set) == CHOOSE x \in set : \A y \in set : x <= y

\* ------------------------------------------------------------------------
\* Actions
\* ------------------------------------------------------------------------
Init ==
    /\ now = ClockStart
    /\ tzExtended \in BOOLEAN
    /\ \E row \in UserRows : users = {row}
    /\ schedules = <<>>
    /\ bookings \in BookingTables
    /\ call = Blank
    /\ prev = Blank

\* Time passes.
Tick ==
    /\ now < ClockStart + MaxTicks * ClockStep
    /\ now' = now + ClockStep
    /\ call' = Blank
    /\ prev' = Blank
    /\ UNCHANGED <<tzExtended, users, schedules, bookings>>

\* GET /api/availability/[user]/slot. Loading the module extends dayjs
\* (slot.ts 9-10) before the handler runs.
SlotLookup ==
    \E r \in Requests :
        /\ call' = SlotHandler(r[1], r[2][1], r[2][2])
        /\ prev' = Blank
        /\ tzExtended' = TRUE
        /\ UNCHANGED <<now, users, schedules, bookings>>

\* GET /api/availability/[user]
AvailabilityLookup ==
    \E r \in Requests :
        /\ call' = AvailabilityHandler(r[1], r[2][1], r[2][2])
        /\ prev' = Blank
        /\ UNCHANGED <<now, tzExtended, users, schedules, bookings>>

\* POST /api/schedule; session is the id of the signed-in user, or Undefined
\* when getSession returned null (session.user.id then throws inside the try).
SchedulePost ==
    \E session \in {1, Undefined}, freeBusyTimes \in FreeBusyValues :
        LET c == [Blank EXCEPT !.handler = "POST", !.now = now,
                               !.freeBusyTimes = freeBusyTimes]
        IN  IF session # Undefined /\ CanConnect(session)
            THEN /\ Len(schedules) < MaxSchedules
                 /\ schedules' = Create(session, freeBusyTimes)
                 /\ call' = Json(c, <<"create">>, 200, "created")
                 /\ prev' = Blank
                 /\ UNCHANGED <<now, tzExtended, users, bookings>>
            ELSE /\ call' = Json(c, <<"create">>, 500,
                                 "Unable to create schedule.")
                 /\ prev' = Blank
                 /\ UNCHANGED <<now, tzExtended, users, schedules, bookings>>

\* PATCH /api/schedule; the row is looked up by body.userId and a missing row
\* is created for body.user_id.
SchedulePatch ==
    \E userId \in {1, Undefined}, user_id \in {1, Undefined},
       freeBusyTimes \in FreeBusyValues :
        LET c == [Blank EXCEPT !.handler = "PATCH", !.now = now,
                               !.freeBusyTimes = freeBusyTimes]
            schedule == FindFirst(userId)
        IN  IF schedule # {}
            THEN /\ schedules' =
                       [schedules EXCEPT
                           ![Min(schedule)].freeBusyTimes = freeBusyTimes]
                 /\ call' = Json(c, <<"findFirst", "update">>, 200, "updated")
                 /\ prev' = Blank
                 /\ UNCHANGED <<now, tzExtended, users, bookings>>
            ELSE IF user_id # Undefined /\ CanConnect(user_id)
            THEN /\ Len(schedules) < MaxSchedules
                 /\ schedules' = Create(user_id, freeBusyTimes)
                 /\ call' = Json(c, <<"findFirst", "create">>, 200, "updated")
                 /\ prev' = Blank
                 /\ UNCHANGED <<now, tzExtended, users, bookings>>
            ELSE /\ call' = Json(c, <<"findFirst", "create">>, 500,
                                 "Unable to create schedule.")
                 /\ prev' = Blank
                 /\ UNCHANGED <<now, tzExtended, users, schedules, bookings>>

Next ==
    \/ Tick
    \/ SlotLookup
    \/ AvailabilityLookup
    \/ SchedulePost
    \/ SchedulePatch

Spec == Init /\ [][Next]_vars

\* ------------------------------------------------------------------------
\* The same slot lookup twice
\* ------------------------------------------------------------------------
\* Time passes while the client still holds the answer.
Pass ==
    /\ now < ClockStart + MaxTicks * ClockStep
    /\ now' = now + ClockStep
    /\ prev' = Blank
    /\ UNCHANGED <<tzExtended, users, schedules, bookings, call>>

\* GET /api/availability/[user]/slot again, with the user, dateFrom and
\* dateTo of the slot lookup answered last; no schedule write lies between.
SlotRepeat ==
    /\ call.handler = "slot"
    /\ prev' = call
    /\ call' = SlotHandler(call.user, call.dateFrom, call.dateTo)
    /\ tzExtended' = TRUE
    /\ UNCHANGED <<now, users, schedules, bookings>>

NextRepeat ==
    \/ Pass
    \/ SlotLookup
    \/ SlotRepeat
    \/ SchedulePost
    \/ SchedulePatch

SpecRepeat == Init /\ [][NextRepeat]_vars


\* ------------------------------------------------------------------------
\* Properties
\* ------------------------------------------------------------------------
IsSlot == call.handler = "slot"
IsAvailability == call.handler = "availability"
Did(step) == \E i \in 1..Len(call.steps) : call.steps[i] = step
\* The user row of the username the invocation was about, if any.
CallUsers == {u \in users : u.username = call.user}

\* The four rules, read off the request, the clock and the user row.
RangeBroken ==
    call.dateFrom = NaN \/ call.dateTo = NaN \/ call.dateFrom > call.dateTo
SpanBroken ==
    ~RangeBroken /\ call.dateTo - call.dateFrom >= 24 * MinutesPerHour
PastBroken == call.dateFrom # NaN /\ call.dateFrom < call.now
NoticeBroken ==
    /\ call.dateFrom # NaN
    /\ \E u \in CallUsers : call.dateFrom < call.now + u.minimumBookingNotice

\* The invocation failed with this status and message right after the steps
\* given, having built no working hours and fetched no bookings.
FailedAt(steps, status, message) ==
    /\ call.status = status
    /\ call.message = message
    /\ call.steps = steps
    /\ call.workingHours = <<>>
    /\ call.selectedSlots = <<>>
    /\ call.bookings = <<>>

RangeFailure == FailedAt(<<"range">>, 400, "Invalid time range given.")
SpanFailure ==
    FailedAt(<<"range", "span">>, 400,
             "Cannot book a slot longer than 24 hours.")
UserFailure ==
    FailedAt(<<"range", "span", "findUnique">>, 404, "No User Found")
PastFailure ==
    FailedAt(<<"range", "span", "findUnique", "past">>, 400,
             "Cannot book past time.")
NoticeFailure ==
    FailedAt(<<"range", "span", "findUnique", "past", "notice">>, 400,
             "Select a time after minimum notice period")

\* C1, as claimed: the slot lookup answers with the failure of the
\* lowest-numbered violated rule among range, span, past, notice, and stops
\* there.
C1_FirstRuleAsClaimed ==
    IsSlot =>
        /\ RangeBroken => RangeFailure
        /\ ~RangeBroken /\ SpanBroken => SpanFailure
        /\ ~RangeBroken /\ ~SpanBroken /\ PastBroken => PastFailure
        /\ ~RangeBroken /\ ~SpanBroken /\ ~PastBroken /\ NoticeBroken
               => NoticeFailure

\* C1, amended: the order is range, span, user lookup, past, notice. With a
\* user row the slot lookup answers with the failure of the lowest-numbered
\* violated rule; without one, once range and span pass, it answers 404 and
\* evaluates neither past nor notice. Every failure stops the handler: no
\* later rule, no working hours, no booking fetch.
C1_FirstRule ==
    IsSlot =>
        /\ RangeBroken => RangeFailure
        /\ ~RangeBroken /\ SpanBroken => SpanFailure
        /\ ~RangeBroken /\ ~SpanBroken /\ CallUsers = {} => UserFailure
        /\ ~RangeBroken /\ ~SpanBroken /\ CallUsers # {} /\ PastBroken
               => PastFailure
        /\ (~RangeBroken /\ ~SpanBroken /\ CallUsers # {}
               /\ ~PastBroken /\ NoticeBroken)
               => NoticeFailure

\* A slot lookup that breaks span, past and notice at once was answered with
\* the span failure.
C1_Witness ==
    IsSlot /\ SpanBroken /\ PastBroken /\ NoticeBroken /\ SpanFailure

\* C2: a slot lookup with a parseable range dateFrom <= dateTo is rejected as
\* too long if and only if dateTo - dateFrom is 24 hours or more.
C2_SpanCap ==
    IsSlot /\ ~RangeBroken =>
        (SpanFailure <=> call.dateTo - call.dateFrom >= 24 * MinutesPerHour)

\* A window of 23 hours 59 minutes passed the span rule.
C2_Witness ==
    /\ IsSlot
    /\ ~RangeBroken
    /\ call.dateTo - call.dateFrom = 24 * MinutesPerHour - 1
    /\ Did("findUnique")

\* C3: for an existing user with notice n and a window that passed range and
\* span: dateFrom < now fails as past; now <= dateFrom < now + n fails as
\* insufficient notice; now + n <= dateFrom is rejected by neither rule and
\* goes on to resolution.
C3_PastAndNotice ==
    IsSlot /\ ~RangeBroken /\ ~SpanBroken =>
        \A u \in CallUsers :
            LET n == u.minimumBookingNotice
            IN  /\ call.dateFrom < call.now => PastFailure
                /\ call.now <= call.dateFrom /\ call.dateFrom < call.now + n
                       => NoticeFailure
                /\ call.now + n <= call.dateFrom
                       => call.status = 200 /\ Did("workhours")

\* A window that starts exactly at now + 120 minutes went on to resolution.
C3_Witness ==
    /\ IsSlot
    /\ \E u \in CallUsers :
           /\ u.minimumBookingNotice = 120
           /\ call.dateFrom = call.now + u.minimumBookingNotice
    /\ call.status = 200
    /\ Did("workhours")

\* C4: the slot lookup's available is true if and only if a working-hour
\* interval matched and no booking was fetched for the window.
C4_Available ==
    IsSlot /\ call.status = 200 =>
        (call.available <=>
            (Len(call.selectedSlots) > 0 /\ Len(call.bookings) = 0
                /\ Len(call.busy) = 0))

\* An interval matched, one booking was fetched, available is false.
C4_Witness ==
    /\ IsSlot
    /\ call.status = 200
    /\ Len(call.selectedSlots) > 0
    /\ Len(call.bookings) = 1
    /\ ~call.available


\* The window in the zone of the response: local weekday of dateFrom, local
\* minute-of-day of dateFrom and of dateTo.
LocalFrom == call.dateFrom + UtcOffset(call.timeZone)
LocalTo == call.dateTo + UtcOffset(call.timeZone)
FromDay == ((LocalFrom \div MinutesPerDay) + 4) % 7
FromMinute == LocalFrom % MinutesPerDay
ToMinute == LocalTo % MinutesPerDay

\* The interval is one of the window's weekday whose closed minute range
\* holds both ends of the window.
Holds(w) ==
    /\ \E i \in 1..Len(w.days) : w.days[i] = FromDay
    /\ w.startTime # NaN /\ w.endTime # NaN
    /\ w.startTime <= FromMinute /\ FromMinute <= w.endTime
    /\ w.startTime <= ToMinute /\ ToMinute <= w.endTime

Returned(w) == \E j \in 1..Len(call.selectedSlots) : call.selectedSlots[j] = w

\* A confirmed, accepted booking of the user that touches the window.
Touches(b) ==
    /\ \E u \in CallUsers : b.userId = u.id
    /\ b.status = "ACCEPTED" /\ b.confirmed
    /\ b.startTime <= call.dateTo /\ b.endTime >= call.dateFrom

\* C5, as claimed: every confirmed, accepted booking of the user that touches
\* [dateFrom, dateTo] makes the slot lookup answer available = false and is
\* listed in busy.
C5_OverlapAsClaimed ==
    IsSlot /\ call.status = 200 =>
        \A k \in 1..Len(bookings) :
            Touches(bookings[k]) =>
                /\ ~call.available
                /\ \E j \in 1..Len(call.busy) :
                       /\ call.busy[j].startTime =
                              (bookings[k].startTime
                                  + UtcOffset(call.timeZone)) % MinutesPerDay
                       /\ call.busy[j].endTime =
                              (bookings[k].endTime
                                  + UtcOffset(call.timeZone)) % MinutesPerDay

\* C6: a working-hour interval is returned if and only if its days contain
\* the local weekday of dateFrom and the local minutes of dateFrom and dateTo
\* both lie in [startTime, endTime], ends included; nothing else is returned.
C6_Match ==
    (IsSlot \/ IsAvailability) /\ call.status = 200 =>
        /\ \A i \in 1..Len(call.workingHours) :
               Returned(call.workingHours[i]) <=> Holds(call.workingHours[i])
        /\ \A j \in 1..Len(call.selectedSlots) :
               \E i \in 1..Len(call.workingHours) :
                   call.workingHours[i] = call.selectedSlots[j]

\* A window that starts at an interval's startTime and ends at its endTime
\* got that interval back.
C6_Witness ==
    /\ (IsSlot \/ IsAvailability)
    /\ call.status = 200
    /\ \E j \in 1..Len(call.selectedSlots) :
           /\ call.selectedSlots[j].startTime = FromMinute
           /\ call.selectedSlots[j].endTime = ToMinute
           /\ FromMinute < ToMinute

\* No schedule record of the invocation carries an entry.
NoEntries ==
    \A k \in 1..Len(call.schedule) :
        \A day \in DOMAIN call.schedule[k].freeBusyTimes :
            call.schedule[k].freeBusyTimes[day] = <<>>
\* The number of entries of the schedule records from the k-th on.
RECURSIVE DayEntries(_, _)
DayEntries(freeBusyTimes, daySet) ==
    IF daySet = {} THEN 0
    ELSE LET d == CHOOSE x \in daySet : TRUE
         IN  Len(freeBusyTimes[d]) + DayEntries(freeBusyTimes, daySet \ {d})
RECURSIVE EntryCount(_)
EntryCount(k) ==
    IF k > Len(call.schedule) THEN 0
    ELSE DayEntries(call.schedule[k].freeBusyTimes,
                    DOMAIN call.schedule[k].freeBusyTimes) + EntryCount(k + 1)
Fallback(u) ==
    [days |-> <<0, 1, 2, 3, 4, 5, 6>>, startTime |-> u.startTime,
     endTime |-> u.endTime]

\* C7: the working hours are the fallback alone - one interval, days 0..6,
\* the user's default start and end - if and only if no schedule record of
\* the user carries an entry; otherwise they are the parsed intervals, one
\* per entry, and the fallback is not among them.
C7_Fallback ==
    (IsSlot \/ IsAvailability) /\ Did("workhours") =>
        \A u \in CallUsers :
            /\ call.workingHours = <<Fallback(u)>> <=> NoEntries
            /\ ~NoEntries =>
                   /\ \A i \in 1..Len(call.workingHours) :
                          /\ call.workingHours[i] # Fallback(u)
                          /\ Len(call.workingHours[i].days) = 1
                   /\ Len(call.workingHours) = EntryCount(1)

\* A user whose only schedule records have empty weekday lists got the
\* fallback.
C7_Witness ==
    /\ (IsSlot \/ IsAvailability)
    /\ Did("workhours")
    /\ call.schedule # <<>>
    /\ NoEntries
    /\ \E u \in CallUsers : call.workingHours = <<Fallback(u)>>

\* Scenario A: a slot lookup that returned a result for Monday 10:00-10:30,
\* for a user in UTC with default hours 540-1020 and no schedule entries.
ScenarioA ==
    /\ IsSlot
    /\ call.status = 200
    /\ call.dateFrom = At(0, 10, 0)
    /\ call.dateTo = At(0, 10, 30)
    /\ call.schedule = <<>>
    /\ \E u \in CallUsers :
           u.timeZone = "UTC" /\ u.startTime = 540 /\ u.endTime = 1020

\* C8, as claimed: in scenario A selectedSlots is the one interval
\* {days:[1], startTime:540, endTime:1020}, and available is true when no
\* bookings exist.
C8_ScenarioAsClaimed ==
    ScenarioA =>
        /\ call.selectedSlots =
               << [days |-> <<1>>, startTime |-> 540, endTime |-> 1020] >>
        /\ bookings = <<>> => call.available

\* C8, amended: in scenario A selectedSlots is the one fallback interval as
\* built, {days:[0,1,2,3,4,5,6], startTime:540, endTime:1020}, and available
\* is true when no bookings exist.
C8_Scenario ==
    ScenarioA =>
        /\ call.selectedSlots =
               << [days |-> <<0, 1, 2, 3, 4, 5, 6>>, startTime |-> 540,
                   endTime |-> 1020] >>
        /\ bookings = <<>> => call.available

C8_Witness == ScenarioA /\ bookings = <<>> /\ call.available

\* "HH:MM": digits, a colon, digits.
IsDigit(c) == c \in {"0", "1", "2", "3", "4", "5", "6", "7", "8", "9"}
WellFormed(time) ==
    \E i \in 2..(Len(time) - 1) :
        /\ time[i] = ":"
        /\ \A j \in 1..Len(time) : j # i => IsDigit(time[j])
\* A schedule row of the user has an entry whose start or end is not "HH:MM".
HasMalformed ==
    \E k \in 1..Len(schedules) :
        /\ \E u \in CallUsers : schedules[k].userId = u.id
        /\ \E day \in DOMAIN schedules[k].freeBusyTimes :
               \E e \in 1..Len(schedules[k].freeBusyTimes[day]) :
                   LET entry == schedules[k].freeBusyTimes[day][e]
                   IN  ~WellFormed(entry.start) \/ ~WellFormed(entry.end)

\* C9, as claimed: with a malformed schedule entry a lookup never returns a
\* 200 result and never holds a working-hour interval whose start or end is
\* NaN.
C9_ParseErrorAsClaimed ==
    (IsSlot \/ IsAvailability) /\ HasMalformed =>
        /\ call.status # 200
        /\ \A i \in 1..Len(call.workingHours) :
               /\ call.workingHours[i].startTime # NaN
               /\ call.workingHours[i].endTime # NaN

\* C10: the availability lookup answers 400 if and only if the range is
\* unparseable or inverted; a long window, a past dateFrom or one inside the
\* notice period is not rejected; and available says exactly whether a
\* working-hour interval matched, whatever bookings exist.
C10_RangeOnly ==
    IsAvailability =>
        /\ call.status = 400 <=> RangeBroken
        /\ RangeBroken => RangeFailure
        /\ ~RangeBroken /\ CallUsers # {} /\ tzExtended => call.status = 200
        /\ call.status = 200 =>
               (call.available <=>
                   \E i \in 1..Len(call.workingHours) :
                       Holds(call.workingHours[i]))

\* A 25-hour window that starts in the past, inside the notice period, with
\* a confirmed booking in it, was answered available = true.
C10_Witness ==
    /\ IsAvailability
    /\ SpanBroken /\ PastBroken /\ NoticeBroken
    /\ \E k \in 1..Len(bookings) : Touches(bookings[k])
    /\ call.status = 200
    /\ call.available


\* C11: for a username without a user row and a range that passes validation
\* (and the 24-hour cap in the slot lookup), the slot lookup answers 404,
\* never 200, whether or not dateFrom is in the past; the availability lookup
\* throws and sends no response of its own.
C11_UnknownUser ==
    ~RangeBroken /\ CallUsers = {} =>
        /\ IsSlot /\ ~SpanBroken =>
               /\ call.status = 404
               /\ call.message = "No User Found"
               /\ ~Did("past") /\ ~Did("workhours")
        /\ IsAvailability =>
               /\ call.status = 0
               /\ call.message = "Error: No user found"
               /\ call.steps = <<"range", "findUnique">>
               /\ call.workingHours = <<>>

\* A slot lookup for an unknown username with dateFrom in the past was
\* answered 404.
C11_Witness ==
    /\ IsSlot
    /\ ~RangeBroken /\ ~SpanBroken
    /\ CallUsers = {}
    /\ PastBroken
    /\ call.status = 404


\* What the caller of a slot lookup gets: the response, or the failure.
Outcome(c) ==
    <<c.status, c.message, c.timeZone, c.busy, c.selectedSlots, c.available>>
\* call is the slot lookup of prev made again, schedule and bookings unchanged.
Repeated == prev.handler = "slot" /\ call.handler = "slot"
\* The invocation was rejected by the past rule or by the notice rule.
TimeRejected(c) ==
    /\ c.status = 400
    /\ c.message \in {"Cannot book past time.",
                      "Select a time after minimum notice period"}

\* C12, as claimed: the same slot lookup made twice, with no change to the
\* schedule or the bookings in between, has the same outcome however much
\* time lies between the two.
C12_IdempotentAsClaimed == Repeated => Outcome(call) = Outcome(prev)

\* C12, amended: the same slot lookup made twice, with no change to the
\* schedule or the bookings in between, has the same outcome unless one of
\* the two is rejected by the past rule or the notice rule; those two rules
\* read the clock, so the later call may fail where the earlier did not.
C12_Idempotent ==
    Repeated /\ ~TimeRejected(call) /\ ~TimeRejected(prev)
        => Outcome(call) = Outcome(prev)

\* A slot lookup that listed a booking was made again an hour or more later
\* and answered the same.
C12_Witness ==
    /\ Repeated
    /\ prev.now < call.now
    /\ call.status = 200
    /\ Len(call.busy) > 0
    /\ Outcome(call) = Outcome(prev)


\* The rows of the schedule table that belong to user id.
SchedulesOf(id) == {i \in 1..Len(schedules) : schedules[i].userId = id}

\* C13, as claimed: whatever POST and PATCH requests were served, every user
\* has at most one schedule record.
C13_UpsertAsClaimed == \A u \in users : Cardinality(SchedulesOf(u.id)) <= 1


\* The intervals in the order the builder meets them: schedule record, then
\* weekday, then entry position; the default interval when there are none.
Encountered ==
    LET workhours == Workhours(call.schedule)
        rawUser == CHOOSE u \in CallUsers : TRUE
    IN  IF Len(workhours) # 0 THEN workhours
        ELSE <<DefaultAvailability(rawUser)>>
NonDecreasing(list) ==
    \A i \in 1..Len(list) - 1 :
        NumLe(list[i].startTime, list[i + 1].startTime)
StartingAt(list, v) ==
    LET Starts(w) == w.startTime = v IN SelectSeq(list, Starts)
RECURSIVE IsSubsequence(_, _)
IsSubsequence(sub, list) ==
    IF sub = <<>> THEN TRUE
    ELSE IF list = <<>> THEN FALSE
    ELSE IF Head(sub) = Head(list)
    THEN IsSubsequence(Tail(sub), Tail(list))
    ELSE IsSubsequence(sub, Tail(list))

\* C14, as claimed: the working hours a lookup built are in non-decreasing
\* startMinute order, entries of equal startMinute in encounter order, and
\* the returned intervals are a subsequence of them, hence in non-decreasing
\* startMinute order too.
C14_SortedAsClaimed ==
    Did("sort") =>
        /\ NonDecreasing(call.workingHours)
        /\ \A i \in 1..Len(call.workingHours) :
               LET v == call.workingHours[i].startTime
               IN  StartingAt(call.workingHours, v) =
                       StartingAt(Encountered, v)
        /\ IsSubsequence(call.selectedSlots, call.workingHours)
        /\ NonDecreasing(call.selectedSlots)


\* A WeeklyInterval as the specification defines it.
WellFormedInterval(w) ==
    /\ Len(w.days) > 0
    /\ \A i \in 1..Len(w.days) : w.days[i] \in 0..6
    /\ w.startTime \in 0..(MinutesPerDay - 1)
    /\ w.endTime \in 1..MinutesPerDay
    /\ w.startTime < w.endTime

\* C15, as claimed: every interval the builder produced, and every interval
\* a lookup returned, has a non-empty set of days in 0..6, a start minute in
\* [0, 1440), an end minute in (0, 1440], and starts before it ends.
C15_WellFormedAsClaimed ==
    Did("sort") =>
        /\ \A i \in 1..Len(call.workingHours) :
               WellFormedInterval(call.workingHours[i])
        /\ \A i \in 1..Len(call.selectedSlots) :
               WellFormedInterval(call.selectedSlots[i])


\* Instant t, read in the lookup's time zone, falls on a day of w within
\* its closed minute range.
Covers(w, t) ==
    /\ Includes(w.days, DayOf(Tz(t, call.timeZone)))
    /\ NumGe(MinuteOfDay(t, call.timeZone), w.startTime)
    /\ NumLe(MinuteOfDay(t, call.timeZone), w.endTime)

\* C16, as claimed: when a lookup returns a matching interval (in the slot
\* lookup: with available = true), every instant of [dateFrom, dateTo] lies
\* on a day of that interval within its minute range, and the window's local
\* start minute is not after its local end minute.
C16_InsideAsClaimed ==
    /\ call.status = 200
    /\ IsSlot \/ IsAvailability
    /\ IsSlot => call.available
    => \A i \in 1..Len(call.selectedSlots) :
           /\ \A t \in call.dateFrom..call.dateTo :
                  Covers(call.selectedSlots[i], t)
           /\ FromMinute <= ToMinute


\* The schedule PATCH answered last returned 200.
PatchDone == call.handler = "PATCH" /\ call.status = 200
\* The invocation is a lookup that built working hours.
Built(c) ==
    /\ c.handler \in {"slot", "availability"}
    /\ \E i \in 1..Len(c.steps) : c.steps[i] = "workhours"

====
